---------------------------- MODULE Spec2Model ----------------------------
(***************************************************************************)
(* Model of dso/run.py: the multi-seed launcher `main` and the replicate   *)
(* executor `train_dso`.                                                   *)
(*                                                                         *)
(* Python's None is the empty tuple <<>>, an optional value x is <<x>>.    *)
(* A file path is the tuple <<directory, file name>>.                      *)
(***************************************************************************)
EXTENDS Integers, Sequences, FiniteSets

\* ---------------------------------------------------------------- bounds
MaxRuns  == 3      \* largest --runs value explored
PlanRuns == 1      \* largest --runs value explored with every configuration
MaxCores == 3      \* largest --n_cores_task value explored
MaxCpu   == 2      \* largest multiprocessing.cpu_count() explored
MaxOtherAppends == 2   \* appends of a second invocation explored

None == <<>>
Some(x) == <<x>>

RunsValues      == 0..MaxRuns
CoresValues     == -1..MaxCores
CpuValues       == 1..MaxCpu
ConfigSeeds     == {None, Some(0)}
CliSeeds        == {None, Some(100)}
Benchmarks      == {None, Some("X")}
TaskTypes       == {"regression", "control", "binding"}
BatchCores      == {1, 2}
SaveDirs        == {"log_A", "log_B"}

\* ------------------------------------------------------------- variables
VARIABLES
    runs,          \* --runs
    n_cores_task,  \* --n_cores_task, then the resolved worker count
    seed,          \* --seed (optional)
    benchmark,     \* --benchmark (optional)
    cpu_count,     \* what multiprocessing.cpu_count() returned, 0 before
    argv,          \* sys.argv: the options as given
    config_template, \* what load_config yields for the template
    dirBySeed,     \* whether the trainer's save_path depends on the seed
    config,        \* the base configuration (load_config, then overrides)
    configs,       \* the seed plan: one configuration per replicate
    pc,            \* position of main
    error,         \* the exception that ended main, or "none"
    out,           \* lines printed by main
    pool,          \* "none", "open" or "terminated"
    poolSize,      \* number of worker processes of the pool
    taskqueue,     \* replicates submitted to the pool and not yet started
    running,       \* replicates whose train_dso call is in progress
    proc,          \* replicate -> process that ran train_dso
    outqueue,      \* finished pool tasks, in completion order
    i,             \* loop counter of the consuming / serial loop
    result,        \* the result main currently holds (optional)
    summary_path,  \* last summary path main received (optional)
    sink,          \* the file system: path -> content of the summary file
    sink0,         \* the file system when main was launched
    other,         \* a second invocation of the launcher: where its append is
    execCount,     \* replicate -> number of train_dso calls started
    appended,      \* replicates in the order their rows were appended
    completed,     \* replicates in the order their train_dso call ended
    raised,        \* replicates whose train_dso call raised
    gymCalls,      \* replicate -> number of gym.make calls
    analyzed       \* calls of LogEval.analyze_log: sequence of directories

vars == <<runs, n_cores_task, seed, benchmark, cpu_count, argv,
          config_template, dirBySeed, config,
          configs, pc, error, out, pool, poolSize, taskqueue, running, proc,
          outqueue, i, result, summary_path, sink, sink0, other, execCount,
          appended, completed, raised, gymCalls, analyzed>>

inputVars == <<runs, seed, benchmark, argv, config_template,
               dirBySeed, sink0, other>>
poolVars  == <<pool, poolSize, taskqueue, running, outqueue>>
histVars  == <<execCount, appended, completed, raised, gymCalls, proc>>


\* ------------------------------------------- main, lines 50-99: the plan
\* load_config: the materialized configuration mappings main may receive
LoadedConfigs ==
    [task : [task_type : TaskTypes, dataset : {"d0"}, env : {"e0"}],
     experiment : [seed : ConfigSeeds, starting_seed : {None},
                   cmd : {None}, timestamp : {None}],
     training : [verbose : BOOLEAN, n_cores_batch : BatchCores]]

\* the configurations explored with more than PlanRuns replicates
LargeRunConfigs ==
    {c \in LoadedConfigs : /\ c.task.task_type = "control"
                           /\ c.experiment.seed = Some(0)
                           /\ c.training.verbose}

\* an override that is never refused
BenchmarkErrorNever(c, b) == FALSE

\* line 64: the benchmark override is given for an unsupported task family
BenchmarkError(c, b) ==
    /\ b # None
    /\ c.task.task_type # "regression"
    /\ c.task.task_type # "control"

\* an override that always targets the dataset
OverwriteBenchmarkDataset(c, b) ==
    IF b = None THEN c ELSE [c EXCEPT !.task.dataset = b[1]]

\* lines 55-62: the benchmark override routed by task family
OverwriteBenchmark(c, b) ==
    IF b = None THEN c
    ELSE IF c.task.task_type = "regression"
         THEN [c EXCEPT !.task.dataset = b[1]]
    ELSE IF c.task.task_type = "control"
         THEN [c EXCEPT !.task.env = b[1]]
    ELSE c

\* lines 67-70: the command-line seed replaces the configuration's seed
OverwriteSeed(c, s) ==
    IF s # None THEN [c EXCEPT !.experiment.seed = s] ELSE c

\* line 74: " ".join(sys.argv), the command line as given
Cmd(r, n, s, b) == <<r, n, s, b>>

\* line 77: the timestamp, read once
Timestamp == "now"

\* lines 73-78: starting seed, command and timestamp stored in the base
SaveExperiment(c, av) ==
    [c EXCEPT !.experiment.starting_seed = c.experiment.seed,
              !.experiment.cmd = Some(av),
              !.experiment.timestamp = Some(Timestamp)]

\* a resolution that leaves -1 as it is
ResolveAllCoresNot(n, cpu) == n

\* lines 81-82: -1 means every core of the host
ResolveAllCores(n, cpu) == IF n = -1 THEN cpu ELSE n

\* a resolution without the clamp
ClampCoresNot(n, r) == n

\* a clamp that stops one below the replicate count
ClampCoresBelow(n, r) == IF n >= r THEN r - 1 ELSE n

\* lines 83-85: no more workers than replicates
ClampCores(n, r) == IF n > r THEN r ELSE n

\* lines 81-85: the resolved worker count
ResolveCores(n, r, cpu) == ClampCores(ResolveAllCores(n, cpu), r)

\* a plan that leaves verbose as configured
FixVerboseNot(c, n) == c

\* lines 86-88: verbose is switched off for a parallel run
FixVerbose(c, n) ==
    IF c.training.verbose /\ n > 1
    THEN [c EXCEPT !.training.verbose = FALSE] ELSE c

\* a plan that leaves n_cores_batch as configured
FixBatchNot(c, n) == c

\* lines 89-91: no nested pools
FixBatch(c, n) ==
    IF c.training.n_cores_batch # 1 /\ n > 1
    THEN [c EXCEPT !.training.n_cores_batch = 1] ELSE c

\* a plan that accepts a null seed
SeedErrorNever(c, r) == FALSE

\* line 96: None += i raises TypeError on the first configuration
SeedError(c, r) == r >= 1 /\ c.experiment.seed = None

\* a seed plan whose offsets start at one
GenerateConfigsFromOne(c, r) ==
    IF c.experiment.seed = None
    THEN [k \in 1..r |-> c]
    ELSE [k \in 1..r |->
            [c EXCEPT !.experiment.seed = Some(c.experiment.seed[1] + k)]]

\* lines 94-96: one deep copy per replicate, seed offset by the index
GenerateConfigs(c, r) ==
    IF c.experiment.seed = None
    THEN [k \in 1..r |-> c]
    ELSE [k \in 1..r |->
            [c EXCEPT !.experiment.seed = Some(c.experiment.seed[1] + (k - 1))]]

\* lines 69, 84, 87, 90: the warnings main prints, in order
Warnings(c0, s, n0, r, cpu) ==
    LET n1 == ResolveAllCores(n0, cpu)
        n2 == ClampCores(n1, r)
    IN  (IF s # None /\ c0.experiment.seed # None
         THEN << <<"warn_seed", 0>> >> ELSE <<>>)
        \o (IF n1 > r THEN << <<"warn_cores", r>> >> ELSE <<>>)
        \o (IF c0.training.verbose /\ n2 > 1
            THEN << <<"warn_verbose", 0>> >> ELSE <<>>)
        \o (IF c0.training.n_cores_batch # 1 /\ n2 > 1
            THEN << <<"warn_batch", 0>> >> ELSE <<>>)

\* lines 55-91: the base configuration after every override and correction
PlanBase(c0, b, s, av, n) ==
    FixBatch(FixVerbose(SaveExperiment(OverwriteSeed(OverwriteBenchmark(c0, b), s), av), n), n)

Paths == {<<d, "summary.csv">> : d \in SaveDirs}

NoFile == [exists |-> FALSE, lines |-> <<>>]

\* a summary file left by an earlier invocation: its header and one row
OldLines == << <<"header", 0>>, <<"row", -1>> >>

Init ==
    /\ runs \in RunsValues
    /\ n_cores_task \in CoresValues
    /\ seed \in IF runs <= PlanRuns THEN CliSeeds ELSE {None}
    /\ benchmark \in IF runs <= PlanRuns THEN Benchmarks ELSE {None}
    /\ cpu_count = 0
    /\ dirBySeed \in BOOLEAN
    /\ argv = Cmd(runs, n_cores_task, seed, benchmark)
    /\ config_template \in IF runs <= PlanRuns THEN LoadedConfigs
                                              ELSE LargeRunConfigs
    /\ config = config_template
    /\ configs = <<>>
    /\ pc = "start"
    /\ error = "none"
    /\ out = <<>>
    /\ pool = "none"
    /\ poolSize = 0
    /\ taskqueue = <<>>
    /\ running = {}
    /\ proc = [k \in 1..runs |-> "none"]
    /\ outqueue = <<>>
    /\ i = 0
    /\ result = None
    /\ summary_path = None
    /\ sink \in {[p \in Paths |-> NoFile],
                 [p \in Paths |-> [exists |-> TRUE,
                                   lines |-> OldLines]]}
    /\ sink0 = sink
    /\ other = [pc |-> "idle", header |-> FALSE, n |-> 0]
    /\ execCount = [k \in 1..runs |-> 0]
    /\ appended = <<>>
    /\ completed = <<>>
    /\ raised = {}
    /\ gymCalls = [k \in 1..runs |-> 0]
    /\ analyzed = <<>>

\* main, lines 50-99: overrides, corrections and the seed plan.
\* cpu_count() is called, and its value kept, only for a request of -1.
Setup ==
    /\ pc = "start"
    /\ \E cpu \in CpuValues :
       LET n    == ResolveCores(n_cores_task, runs, cpu)
           warn == Warnings(config, seed, n_cores_task, runs, cpu)
           base == PlanBase(config, benchmark, seed, argv, n)
       IN  IF BenchmarkError(config, benchmark)
           THEN /\ pc' = "error"
                /\ error' = "ValueError"
                /\ UNCHANGED <<config, configs, n_cores_task, out,
                               cpu_count>>
           ELSE /\ cpu_count' = IF n_cores_task = -1 THEN cpu ELSE 0
                /\ n_cores_task = -1 \/ cpu = 1
                /\ config' = IF runs < 1 THEN base
                           ELSE IF SeedError(base, runs)
                                THEN GenerateConfigs(base, runs)[1]
                           ELSE GenerateConfigs(base, runs)[runs]
                /\ n_cores_task' = n
                /\ configs' = GenerateConfigs(base, runs)
                /\ IF SeedError(base, runs)
                   THEN /\ pc' = "error"
                        /\ error' = "TypeError"
                        /\ out' = warn
                   ELSE /\ pc' = "farm"
                        /\ error' = error
                        /\ out' = Append(warn, <<"running", runs>>)
    /\ UNCHANGED <<inputVars, poolVars, histVars, i, result, summary_path,
                   sink, analyzed>>


\* ------------------------------------------------ train_dso, lines 18-38
\* what DeepSymbolicOptimizer.train() may do: return a record with or
\* without a "program" field, or raise
TrainOutcomes == {"program", "no_program", "raise"}

\* a precondition that ignores n_cores_batch
NeedsGymAnyBatch(c) == c.task.task_type = "control"

\* line 23: the environment is instantiated before training
NeedsGym(c) ==
    c.task.task_type = "control" /\ c.training.n_cores_batch > 1

\* line 35: the experiment directory the trainer derived from the config
SavePath(c) ==
    IF dirBySeed /\ c.experiment.seed[1] % 2 = 1 THEN "log_B" ELSE "log_A"

\* line 36: os.path.join(save_path, "summary.csv")
SummaryPath(c) == <<SavePath(c), "summary.csv">>

\* line 31: the fields of the record train() returns
TrainFields(outcome) ==
    IF outcome = "program" THEN {"r", "program"} ELSE {"r"}

\* lines 29-38: what one call of train_dso for replicate k hands back
TrainDso(k, c, outcome) ==
    IF outcome = "raise"
    THEN [rep |-> k, kind |-> "exception", error |-> "TrainError",
          fields |-> {}, seed |-> c.experiment.seed[1],
          path |-> SummaryPath(c)]
    ELSE IF "program" \notin (TrainFields(outcome) \cup {"t"})
    THEN [rep |-> k, kind |-> "exception", error |-> "KeyError",
          fields |-> {}, seed |-> c.experiment.seed[1],
          path |-> SummaryPath(c)]
    ELSE [rep |-> k, kind |-> "ok", error |-> "none",
          fields |-> (TrainFields(outcome) \cup {"t"}) \ {"program"},
          seed |-> c.experiment.seed[1],
          path |-> SummaryPath(c)]

\* ------------------------------------------- the sink, lines 105 and 110
\* an append that writes the header every time (header=True)
ToCsvHeaderAlways(fs, r) ==
    [fs EXCEPT ![r.path] =
        [exists |-> TRUE,
         lines  |-> Append(fs[r.path].lines, <<"header", 0>>)
                    \o << <<"row", r.seed>> >>]]

\* the argument header=not os.path.exists(summary_path)
HeaderFlag(fs, p) == ~fs[p].exists

\* to_csv(path, header=h, mode='a'): the file is opened for appending and
\* the header, if asked for, and the row are written
WriteCsv(fs, p, h, s) ==
    [fs EXCEPT ![p] =
        [exists |-> TRUE,
         lines  |-> (IF h THEN Append(fs[p].lines, <<"header", 0>>)
                     ELSE fs[p].lines)
                    \o << <<"row", s>> >>]]

\* DataFrame(result).to_csv(path, header=not exists(path), mode='a')
ToCsv(fs, r) == WriteCsv(fs, r.path, HeaderFlag(fs, r.path), r.seed)

\* lines 106 and 111: the progress line
Progress(n, total) == <<"completed", n, total>>

Inc(f, k) == [f EXCEPT ![k] = @ + 1]

\* ------------------------------------------ main, lines 101-111: farming
\* a submission that hands the first configuration to the pool twice
SubmittedTwice(cs) ==
    [k \in 1..Len(cs) |-> k] \o (IF Len(cs) > 0 THEN <<1>> ELSE <<>>)

\* line 104: imap_unordered submits every configuration, in order
Submitted(cs) == [k \in 1..Len(cs) |-> k]

\* a result queue kept in submission order (imap instead of imap_unordered
\* once several results wait)
PutResultInOrder(q, r) ==
    SelectSeq(q, LAMBDA x : x.rep < r.rep) \o <<r>>
        \o SelectSeq(q, LAMBDA x : x.rep >= r.rep)

\* line 104: imap_unordered yields results in the order the tasks ended
PutResult(q, r) == Append(q, r)

\* a serial loop that walks the plan backwards
SerialIndexReversed(n) == runs - n

\* line 108: enumerate(configs), the replicate of the iteration after n
SerialIndex(n) == n + 1

\* a loop that takes every result for a row, the exception included
FailedNever(r) == FALSE

\* lines 104 and 109: the call raised, and the exception reaches main
Failed(r) == r.kind = "exception"

\* lines 102-104: the pool is created and every configuration submitted
CreatePool ==
    /\ pc = "farm"
    /\ n_cores_task > 1
    /\ pool' = "open"
    /\ poolSize' = n_cores_task
    /\ taskqueue' = Submitted(configs)
    /\ pc' = "imap"
    /\ UNCHANGED <<inputVars, cpu_count, n_cores_task, config, configs, error, out,
                   running, outqueue, histVars, i, result, summary_path,
                   sink, analyzed>>

\* a pool worker takes the next submitted configuration and enters train_dso
WorkerStart ==
    /\ pool = "open"
    /\ taskqueue # <<>>
    /\ Cardinality(running) < poolSize
    /\ LET k == Head(taskqueue)
       IN  /\ taskqueue' = Tail(taskqueue)
           /\ running' = running \cup {k}
           /\ execCount' = Inc(execCount, k)
           /\ proc' = [proc EXCEPT ![k] = "worker"]
           /\ gymCalls' = IF NeedsGym(configs[k]) THEN Inc(gymCalls, k)
                          ELSE gymCalls
    /\ UNCHANGED <<inputVars, cpu_count, n_cores_task, config, configs, pc, error, out,
                   pool, poolSize, outqueue, i, result, summary_path, sink,
                   appended, completed, raised, analyzed>>

\* a worker that appends its own row before it hands the result back
WorkerFinishWrites(k, outcome) ==
    /\ pool = "open"
    /\ k \in running
    /\ running' = running \ {k}
    /\ outqueue' = PutResult(outqueue, TrainDso(k, configs[k], outcome))
    /\ completed' = Append(completed, k)
    /\ raised' = IF TrainDso(k, configs[k], outcome).kind = "exception"
                 THEN raised \cup {k} ELSE raised
    /\ sink' = ToCsv(sink, TrainDso(k, configs[k], outcome))
    /\ UNCHANGED <<inputVars, cpu_count, n_cores_task, config, configs, pc,
                   error, out, pool, poolSize, taskqueue, i, result,
                   summary_path, execCount, appended, gymCalls, proc,
                   analyzed>>

\* a pool worker's train_dso call ends; its outcome goes to the result queue
WorkerFinish(k, outcome) ==
    /\ pool = "open"
    /\ k \in running
    /\ running' = running \ {k}
    /\ outqueue' = PutResult(outqueue, TrainDso(k, configs[k], outcome))
    /\ completed' = Append(completed, k)
    /\ raised' = IF TrainDso(k, configs[k], outcome).kind = "exception"
                 THEN raised \cup {k} ELSE raised
    /\ UNCHANGED <<inputVars, cpu_count, n_cores_task, config, configs, pc, error, out,
                   pool, poolSize, taskqueue, i, result, summary_path, sink,
                   execCount, appended, gymCalls, proc, analyzed>>

\* lines 104-106: main takes the next finished task; a worker's exception
\* is raised again in main
Consume ==
    /\ pc = "imap"
    /\ outqueue # <<>>
    /\ LET r == Head(outqueue)
       IN  /\ outqueue' = Tail(outqueue)
           /\ IF Failed(r)
              THEN /\ pc' = "error"
                   /\ error' = r.error
                   /\ UNCHANGED <<out, i, result, summary_path, sink,
                                  appended>>
              ELSE /\ result' = Some(r)
                   /\ summary_path' = Some(r.path)
                   /\ sink' = ToCsv(sink, r)
                   /\ appended' = Append(appended, r.rep)
                   /\ out' = Append(out, Progress(i + 1, runs))
                   /\ i' = i + 1
                   /\ pc' = IF i + 1 = Len(configs) THEN "analyze" ELSE "imap"
                   /\ error' = error
    /\ UNCHANGED <<inputVars, cpu_count, n_cores_task, config, configs, pool, poolSize,
                   taskqueue, running, execCount, completed, raised, gymCalls, proc,
                   analyzed>>

\* lines 107-108: the serial loop is entered
EnterSerial ==
    /\ pc = "farm"
    /\ ~(n_cores_task > 1)
    /\ pc' = IF Len(configs) = 0 THEN "analyze" ELSE "serial_call"
    /\ UNCHANGED <<inputVars, cpu_count, n_cores_task, config, configs, error, out,
                   poolVars, histVars, i, result, summary_path, sink,
                   analyzed>>

\* line 109: main enters train_dso for the next configuration
SerialCall ==
    /\ pc = "serial_call"
    /\ LET k == SerialIndex(i)
       IN  /\ config' = configs[k]
           /\ running' = running \cup {k}
           /\ execCount' = Inc(execCount, k)
           /\ proc' = [proc EXCEPT ![k] = "main"]
           /\ gymCalls' = IF NeedsGym(configs[k]) THEN Inc(gymCalls, k)
                          ELSE gymCalls
    /\ pc' = "serial_train"
    /\ UNCHANGED <<inputVars, cpu_count, n_cores_task, configs, error, out, pool,
                   poolSize, taskqueue, outqueue, i, result, summary_path,
                   sink, appended, completed, raised, analyzed>>

\* line 109: train_dso returns to main, or raises
SerialReturn(outcome) ==
    /\ pc = "serial_train"
    /\ LET k == SerialIndex(i)
           r == TrainDso(k, configs[k], outcome)
       IN  /\ running' = running \ {k}
           /\ completed' = Append(completed, k)
           /\ raised' = IF r.kind = "exception" THEN raised \cup {k}
                        ELSE raised
           /\ IF Failed(r)
              THEN /\ pc' = "error"
                   /\ error' = r.error
                   /\ UNCHANGED <<result, summary_path>>
              ELSE /\ pc' = "serial_append"
                   /\ error' = error
                   /\ result' = Some(r)
                   /\ summary_path' = Some(r.path)
    /\ UNCHANGED <<inputVars, cpu_count, n_cores_task, config, configs, out, pool,
                   poolSize, taskqueue, outqueue, i, sink, execCount,
                   appended, gymCalls, proc, analyzed>>

\* lines 110-111: the row is appended and the progress line printed
SerialAppend ==
    /\ pc = "serial_append"
    /\ sink' = ToCsv(sink, result[1])
    /\ appended' = Append(appended, result[1].rep)
    /\ out' = Append(out, Progress(i + 1, runs))
    /\ i' = i + 1
    /\ pc' = IF i + 1 = Len(configs) THEN "analyze" ELSE "serial_call"
    /\ UNCHANGED <<inputVars, cpu_count, n_cores_task, config, configs, error, poolVars,
                   result, summary_path, execCount, completed, raised, gymCalls, proc,
                   analyzed>>

\* line 114: os.path.dirname
Dirname(p) == p[1]

\* lines 113-120: the log directory is analyzed; summary_path is unbound
\* when no replicate ran
Analyze ==
    /\ pc = "analyze"
    /\ IF summary_path = None
       THEN /\ pc' = "error"
            /\ error' = "NameError"
            /\ UNCHANGED analyzed
       ELSE /\ pc' = "done"
            /\ error' = error
            /\ analyzed' = Append(analyzed, Dirname(summary_path[1]))
    /\ UNCHANGED <<inputVars, cpu_count, n_cores_task, config, configs, out, poolVars,
                   histVars, i, result, summary_path, sink>>

\* a process end that leaves the pool's workers alive
ExitLeavesPool ==
    /\ pc \in {"done", "error"}
    /\ pc' = "exited"
    /\ pool' = pool
    /\ taskqueue' = <<>>
    /\ running' = {}
    /\ outqueue' = <<>>
    /\ UNCHANGED <<inputVars, cpu_count, n_cores_task, config, configs, error, out,
                   poolSize, histVars, i, result, summary_path, sink,
                   analyzed>>

\* lines 123-124: main returned or raised and the process ends; the pool's
\* daemonic workers end with it
Exit ==
    /\ pc \in {"done", "error"}
    /\ pc' = "exited"
    /\ pool' = IF pool = "open" THEN "terminated" ELSE pool
    /\ taskqueue' = <<>>
    /\ running' = {}
    /\ outqueue' = <<>>
    /\ UNCHANGED <<inputVars, cpu_count, n_cores_task, config, configs, error, out,
                   poolSize, histVars, i, result, summary_path, sink,
                   analyzed>>

\* ------------------------------- a second invocation on the same sink
\* the summary path and the row of the second invocation
OtherPath == <<"log_A", "summary.csv">>
OtherSeed == 0 - 1

\* lines 105 and 110 in the second invocation: the header argument is
\* evaluated before to_csv is entered
OtherCheck ==
    /\ other.pc = "idle"
    /\ other.n < MaxOtherAppends
    /\ other' = [other EXCEPT !.pc = "write",
                              !.header = HeaderFlag(sink, OtherPath)]
    /\ UNCHANGED <<runs, n_cores_task, seed, benchmark, cpu_count, argv,
                   config_template, dirBySeed, config, configs, pc, error,
                   out, poolVars, histVars, i, result, summary_path, sink,
                   sink0, analyzed>>

\* lines 105 and 110 in the second invocation: to_csv writes
OtherWrite ==
    /\ other.pc = "write"
    /\ sink' = WriteCsv(sink, OtherPath, other.header, OtherSeed)
    /\ other' = [other EXCEPT !.pc = "idle", !.n = @ + 1]
    /\ UNCHANGED <<runs, n_cores_task, seed, benchmark, cpu_count, argv,
                   config_template, dirBySeed, config, configs, pc, error,
                   out, poolVars, histVars, i, result, summary_path, sink0,
                   analyzed>>

Next ==
    \/ Setup
    \/ CreatePool
    \/ WorkerStart
    \/ \E k \in 1..MaxRuns, o \in TrainOutcomes : WorkerFinish(k, o)
    \/ Consume
    \/ EnterSerial
    \/ SerialCall
    \/ \E o \in TrainOutcomes : SerialReturn(o)
    \/ SerialAppend
    \/ Analyze
    \/ Exit

Spec == Init /\ [][Next]_vars

\* two invocations of the launcher that report the same summary path
\* every train_dso call and every step of main ends, and the process exits
\* once main has returned or raised
SpecLive == Init /\ [][Next]_vars /\ WF_vars(Next)

InitShared ==
    /\ Init
    /\ seed = None
    /\ benchmark = None
    /\ config_template \in LargeRunConfigs
    /\ config_template.training.n_cores_batch = 1
    /\ ~dirBySeed

NextShared ==
    \/ Next
    \/ OtherCheck
    \/ OtherWrite

SpecShared == InitShared /\ [][NextShared]_vars


\* --------------------------------------------------------------- claims
Min(a, b) == IF a < b THEN a ELSE b

\* the seed plan was built: lines 50-99 ended without an exception
Planned == pc # "start" /\ error \notin {"ValueError", "TypeError"}

\* every replicate ended and main went on to the analysis
RunSucceeded == error = "none" /\ pc \in {"analyze", "done", "exited"}

\* the starting seed main settled on
BaseSeed == IF seed # None THEN seed ELSE config_template.experiment.seed

\* the worker count asked for, -1 replaced by the host's core count
RequestedCores == IF argv[2] = -1 THEN cpu_count ELSE argv[2]

\* the lines main added to the file at p, and the seeds of its data rows
NewLines(p) ==
    SubSeq(sink[p].lines, Len(sink0[p].lines) + 1, Len(sink[p].lines))

RowSeeds(p) ==
    LET rows == SelectSeq(NewLines(p), LAMBDA l : l[1] = "row")
    IN  [j \in 1..Len(rows) |-> rows[j][2]]

\* the number of data rows in the file at p that carry seed s
RowCount(p, s) ==
    Cardinality({j \in 1..Len(sink[p].lines) : sink[p].lines[j] = <<"row", s>>})

RECURSIVE SumRows(_, _)
SumRows(S, s) ==
    IF S = {} THEN 0
    ELSE LET p == CHOOSE x \in S : TRUE
         IN  RowCount(p, s) + SumRows(S \ {p}, s)

\* the number of data rows, in any file, that carry replicate k's seed
RowsFor(k) == SumRows(Paths, configs[k].experiment.seed[1])

\* the seeds of the appended replicates that reported path p, in order
AppendedSeeds(p) ==
    LET at == SelectSeq(appended, LAMBDA k : SummaryPath(configs[k]) = p)
    IN  [j \in 1..Len(at) |-> configs[at[j]].experiment.seed[1]]

IsPrefix(a, b) == Len(a) <= Len(b) /\ a = SubSeq(b, 1, Len(a))

\* C1: no replicate is executed or aggregated more than once, and when every
\* training call succeeded each of the runs planned configurations was
\* executed by train_dso exactly once and has exactly one row in the sink,
\* whatever the completion order.
C1_ExactlyOnce ==
    Planned =>
        /\ Len(configs) = runs
        /\ \A k \in 1..runs :
              LET rows == RowsFor(k)
              IN  /\ execCount[k] <= 1
                  /\ rows <= execCount[k]
                  /\ RunSucceeded => execCount[k] = 1 /\ rows = 1

C1_Witness ==
    /\ pc = "done"
    /\ runs = 3
    /\ poolSize = 2
    /\ completed = <<2, 3, 1>>
    /\ \A k \in 1..runs : RowsFor(k) = 1

\* C2: with an integer starting seed s, the plan holds exactly runs
\* configurations, the i-th (zero-based) has seed s + i, and every other
\* field, timestamp, cmd and starting_seed included, is the same in all.
C2_SeedPlan ==
    (Planned /\ BaseSeed # None) =>
        /\ Len(configs) = runs
        /\ \A k \in 1..runs :
              /\ configs[k].experiment.seed = Some(BaseSeed[1] + (k - 1))
              /\ configs[k].experiment.starting_seed = BaseSeed
              /\ configs[k].experiment.cmd = Some(argv)
              /\ configs[k].experiment.timestamp = Some(Timestamp)
              /\ [configs[k] EXCEPT !.experiment.seed = None]
                   = [configs[1] EXCEPT !.experiment.seed = None]

C2_Witness ==
    /\ pc = "farm"
    /\ runs = 3
    /\ configs[3].experiment.seed = Some(2)
    /\ configs[3].experiment.starting_seed = Some(0)

\* C3: when the file was absent at launch and every append so far reported
\* the same path, the file holds one header row followed by one data row
\* per append, and runs data rows once the run succeeded.
C3_OneHeader ==
    \A p \in Paths :
        (Planned /\ ~sink0[p].exists
                 /\ \A q \in Paths \ {p} : sink[q] = sink0[q]) =>
            /\ IF i = 0 THEN sink[p] = NoFile
               ELSE /\ sink[p].exists
                    /\ Len(sink[p].lines) = i + 1
                    /\ sink[p].lines[1] = <<"header", 0>>
                    /\ \A j \in 2..(i + 1) : sink[p].lines[j][1] = "row"
            /\ RunSucceeded => i = runs

C3_Witness ==
    /\ pc = "done"
    /\ runs = 3
    /\ ~sink0[<<"log_A", "summary.csv">>].exists
    /\ Len(sink[<<"log_A", "summary.csv">>].lines) = 4

\* C4: in the parallel path rows are appended, and progress lines printed,
\* in the order the training calls ended, not in submission order.
C4_CompletionOrder ==
    (Planned /\ pool # "none") =>
        /\ IsPrefix(appended, completed)
        /\ \A p \in Paths : RowSeeds(p) = AppendedSeeds(p)
        /\ SelectSeq(out, LAMBDA l : l[1] = "completed")
             = [n \in 1..Len(appended) |-> Progress(n, runs)]

C4_Witness ==
    /\ pool = "open"
    /\ completed = <<2, 1>>
    /\ appended = <<2, 1>>
    /\ RowSeeds(<<"log_A", "summary.csv">>) = <<1, 0>>

\* C5: in the serial path the replicates run one at a time in main, in
\* submission order, a replicate starts only after the row of the one
\* before it was appended, and the rows appear in increasing seed order.
C5_SerialOrder ==
    (Planned /\ pool = "none") =>
        /\ Cardinality(running) <= 1
        /\ \A k \in 1..runs : proc[k] \in {"none", "main"}
        /\ completed = [j \in 1..Len(completed) |-> j]
        /\ appended = [j \in 1..Len(appended) |-> j]
        /\ \A k \in 2..runs :
              execCount[k] > 0 => Len(appended) >= k - 1
        /\ \A p \in Paths : \A j \in 2..Len(RowSeeds(p)) :
              RowSeeds(p)[j - 1] < RowSeeds(p)[j]

C5_Witness ==
    /\ pc = "done"
    /\ pool = "none"
    /\ runs = 3
    /\ appended = <<1, 2, 3>>
    /\ RowSeeds(<<"log_A", "summary.csv">>) = <<0, 1, 2>>

\* C6: a request of -1 workers resolves to the smaller of the host's core
\* count and runs.
C6_AllCores ==
    (Planned /\ argv[2] = -1) => n_cores_task = Min(cpu_count, runs)

C6_Witness ==
    /\ pc = "farm"
    /\ argv[2] = -1
    /\ cpu_count = 2
    /\ runs = 3
    /\ n_cores_task = 2

\* C7: a worker count above runs is set to runs with a warning, and the
\* count used for the pool and for the serial/parallel decision never
\* exceeds runs.
C7_Clamped ==
    Planned =>
        /\ n_cores_task <= runs
        /\ RequestedCores > runs =>
              /\ n_cores_task = runs
              /\ \E j \in 1..Len(out) : out[j] = <<"warn_cores", runs>>
        /\ RequestedCores <= runs =>
              /\ n_cores_task = RequestedCores
              /\ \A j \in 1..Len(out) : out[j][1] # "warn_cores"
        /\ pool # "none" => poolSize = n_cores_task /\ poolSize <= runs

C7_Witness ==
    /\ pool = "open"
    /\ argv[2] = 3
    /\ runs = 2
    /\ poolSize = 2

\* C8 as stated: verbose in the loaded configuration and a requested
\* n_cores_task above 1 leave verbose off in every replicate.
C8_RequestedParallel ==
    (Planned /\ config_template.training.verbose /\ argv[2] > 1) =>
        \A k \in 1..runs : ~configs[k].training.verbose

\* C8, amended: verbose in the loaded configuration and a resolved worker
\* count above 1 leave verbose off in every replicate.
C8_VerboseOff ==
    (Planned /\ config_template.training.verbose /\ n_cores_task > 1) =>
        /\ \A k \in 1..runs : ~configs[k].training.verbose
        /\ \E j \in 1..Len(out) : out[j][1] = "warn_verbose"

C8_Witness ==
    /\ pool = "open"
    /\ config_template.training.verbose
    /\ runs = 2
    /\ ~configs[1].training.verbose
    /\ ~configs[2].training.verbose

\* C9: a benchmark override changes task.dataset alone for "regression",
\* task.env alone for "control", and without an override the task fields
\* are the loaded ones.
C9_BenchmarkRouting ==
    Planned =>
        LET t0 == config_template.task
            t  == IF benchmark = None THEN t0
                  ELSE IF t0.task_type = "regression"
                       THEN [t0 EXCEPT !.dataset = benchmark[1]]
                  ELSE [t0 EXCEPT !.env = benchmark[1]]
        IN  /\ config.task = t
            /\ \A k \in 1..runs : configs[k].task = t

C9_Witness ==
    /\ pc = "farm"
    /\ benchmark = Some("X")
    /\ config_template.task.task_type = "control"
    /\ runs = 1
    /\ configs[1].task.env = "X"
    /\ configs[1].task.dataset = "d0"

\* C10: a benchmark override for a task family other than "regression" and
\* "control" ends main with a ValueError before any replicate: no training
\* call, no pool, no row in the sink, no analysis.
C10_UnsupportedBenchmark ==
    (pc # "start" /\ benchmark # None
        /\ config_template.task.task_type \notin {"regression", "control"}) =>
        /\ pc \in {"error", "exited"}
        /\ error = "ValueError"
        /\ configs = <<>>
        /\ \A k \in 1..runs : execCount[k] = 0
        /\ running = {}
        /\ pool = "none"
        /\ sink = sink0
        /\ out = <<>>
        /\ analyzed = <<>>

C10_Witness ==
    /\ pc = "error"
    /\ error = "ValueError"
    /\ benchmark = Some("X")
    /\ config_template.task.task_type = "binding"
    /\ runs = 1
    /\ n_cores_task = 2

Range(q) == {q[j] : j \in 1..Len(q)}

\* C11: without a starting seed (null in the configuration, no --seed) main
\* never starts a training call, creates no pool, writes nothing and never
\* completes; with at least one replicate it ends in an exception inside
\* the plan, and no configuration with a null seed reaches a replicate.
C11_NoSeed ==
    (pc # "start" /\ BaseSeed = None) =>
        /\ \A k \in 1..runs : execCount[k] = 0 /\ proc[k] = "none"
        /\ running = {}
        /\ pool = "none"
        /\ sink = sink0
        /\ analyzed = <<>>
        /\ pc # "done"
        /\ pc = "exited" => error # "none"
        /\ runs >= 1 =>
              /\ pc \in {"error", "exited"}
              /\ error \in {"ValueError", "TypeError"}

C11_Witness ==
    /\ pc = "error"
    /\ error = "TypeError"
    /\ seed = None
    /\ config_template.experiment.seed = None
    /\ runs = 1
    /\ n_cores_task = 1
    /\ configs[1].experiment.seed = None

\* C12: a replicate whose train_dso call raised has no row and was called
\* once, the run never reaches the analysis, main ends with that exception,
\* and once main has failed the sink is not changed any more; the sink only
\* ever grows.
C12_FailFast ==
    /\ [](Planned =>
            /\ \A k \in raised :
                  /\ RowsFor(k) = 0
                  /\ k \notin Range(appended)
                  /\ execCount[k] = 1
            /\ raised # {} =>
                  /\ analyzed = <<>>
                  /\ pc \notin {"analyze", "done"}
                  /\ pool = "none" => pc \in {"error", "exited"}
                  /\ pc = "exited" => error \in {"TrainError", "KeyError"})
    /\ [][/\ \A p \in Paths : IsPrefix(sink[p].lines, sink'[p].lines)
          /\ pc \in {"error", "exited"} =>
                /\ sink' = sink
                /\ appended' = appended
                /\ analyzed' = analyzed
                /\ pc' \in {"error", "exited"}]_vars

C12_Witness ==
    /\ pc = "error"
    /\ error = "TrainError"
    /\ pool = "open"
    /\ runs = 3
    /\ completed = <<2, 1, 3>>
    /\ appended = <<2>>
    /\ raised = {1}
    /\ RowSeeds(<<"log_A", "summary.csv">>) = <<1>>

\* C13: whenever every planned replicate completed without error and its
\* row was appended, main ends with exactly one call of the analyzer, made
\* after the last row, on the directory of the summary file.
C13_AnalyzedOnce ==
    /\ Len(analyzed) <= 1
    /\ analyzed # <<>> =>
          /\ Len(appended) = runs
          /\ summary_path # None
          /\ analyzed[1] = Dirname(summary_path[1])
    /\ (Planned /\ Len(appended) = runs /\ pc \in {"done", "error", "exited"})
          => Len(analyzed) = 1

\* C14: however the appends of several invocations interleave, a summary
\* file holds one header row, its first line, and data rows after it.
C14_HeaderOnce ==
    \A p \in Paths :
        /\ Cardinality({j \in 1..Len(sink[p].lines) :
                            sink[p].lines[j][1] = "header"}) <= 1
        /\ sink[p].lines # <<>> => sink[p].lines[1][1] = "header"

\* C15: whenever the resolved worker count is above 1, and so whenever a
\* pool exists, n_cores_batch is 1 in every replicate's configuration.
C15_NoNestedPools ==
    Planned =>
        /\ n_cores_task > 1 =>
              \A k \in 1..runs : configs[k].training.n_cores_batch = 1
        /\ pool # "none" =>
              /\ n_cores_task > 1
              /\ \A k \in 1..runs :
                    proc[k] = "worker" =>
                        configs[k].training.n_cores_batch = 1

C15_Witness ==
    /\ pool = "open"
    /\ config_template.training.n_cores_batch = 2
    /\ runs = 3
    /\ proc[1] = "worker"
    /\ proc[2] = "worker"
    /\ configs[1].training.n_cores_batch = 1
    /\ configs[3].training.n_cores_batch = 1

\* C16: the sink changes only in a step of main's own loop, which takes one
\* result and appends one row for it to one file; a step that starts or
\* ends a worker's train_dso call leaves the sink as it is.
C16_SingleWriter ==
    [][sink' # sink =>
          /\ pc \in {"imap", "serial_append"}
          /\ i' = i + 1
          /\ Len(appended') = Len(appended) + 1
          /\ running' = running
          /\ taskqueue' = taskqueue
          /\ completed' = completed
          /\ result' # None
          /\ appended'[Len(appended')] = result'[1].rep
          /\ \A p \in Paths \ {result'[1].path} : sink'[p] = sink[p]
          /\ LET old == sink[result'[1].path].lines
                 new == sink'[result'[1].path].lines
             IN  /\ IsPrefix(old, new)
                 /\ new[Len(new)] = <<"row", result'[1].seed>>
                 /\ Len(new) - Len(old) \in {1, 2}
                 /\ Len(new) - Len(old) = 2 =>
                       new[Len(new) - 1] = <<"header", 0>>]_vars

C16_Witness ==
    /\ pool = "open"
    /\ runs = 3
    /\ poolSize = 3
    /\ running = {1, 3}
    /\ appended = <<2>>
    /\ RowSeeds(<<"log_A", "summary.csv">>) = <<1>>

C19_ProgramFree ==
    Planned =>
        \A k \in 1..Len(configs) :
            \A o \in {"program", "no_program"} :
                /\ TrainDso(k, configs[k], o).kind = "ok"
                /\ "t" \in TrainDso(k, configs[k], o).fields
                /\ "program" \notin TrainDso(k, configs[k], o).fields

\* C20: the environment is instantiated only in the coordinating process
\* and never by a pool worker, at most once per replicate, only for a
\* control task with n_cores_batch > 1, and in the step that starts the
\* replicate's call, before its training has ended.
C20_GymInMain ==
    /\ [](\A k \in 1..runs :
            /\ gymCalls[k] <= 1
            /\ gymCalls[k] <= execCount[k]
            /\ proc[k] = "worker" => gymCalls[k] = 0
            /\ gymCalls[k] > 0 =>
                  /\ proc[k] = "main"
                  /\ pool = "none"
                  /\ n_cores_task <= 1
                  /\ NeedsGym(configs[k]))
    /\ [][\A k \in 1..runs :
             gymCalls'[k] # gymCalls[k] =>
                 /\ execCount[k] = 0
                 /\ execCount'[k] = 1
                 /\ k \notin Range(completed)
                 /\ k \notin raised
                 /\ k \notin Range(appended)]_vars

C20_Witness ==
    /\ pc = "exited"
    /\ error = "none"
    /\ runs = 3
    /\ \A k \in 1..3 : gymCalls[k] = 1 /\ proc[k] = "main"
    /\ appended = <<1, 2, 3>>

=============================================================================
